---- MODULE Spec2Model ----
(***************************************************************************)
(* Session lifecycle and billing of the gaming-lounge point of sale.       *)
(*                                                                         *)
(* The relational tables (stations, sessions, payments, stats, customers)  *)
(* are the state.  Every request handler is a sequence of database         *)
(* statements separated by awaits; one action is one database statement    *)
(* together with the synchronous code that runs after it, up to the next   *)
(* statement.  Requests are served in slots: a slot takes a request, runs  *)
(* the handler's statements in order and answers with an HTTP status.      *)
(***************************************************************************)
EXTENDS Integers, Sequences, FiniteSets, TLC

\* ---------------------------------------------------------------- bounds
MaxStations == 1
MaxSessions == 2
MaxPayments == 2
MaxTicks    == 1
NumSlots    == 2
MaxParts    == 3

\* ---------------------------------------------------------------- values
\* SQL NULL in a nullable column (rate_per_game, end_time, duration, ...)
NULL == -1

StationStatus == {"AVAILABLE", "ACTIVE", "MAINTENANCE"}
\* an optional enum field the request body or the insert values leave out
Absent == "absent"
SessionType   == {"HOURLY", "FIXED"}

\* The clock counts whole seconds (Date.getTime() / 1000).
SecondsPerMinute == 60
SecondsPerHour   == 3600
SecondsPerDay    == 86400

\* Clock advances the model takes: half a minute, 130 minutes and one day
\* (midnight rollover).
TickSteps == {30, 7800, 86400}

\* Rate cards used by station create / update requests.
HourRates == {200}
GameRates == {NULL, 40}

\* Customers on file (rows of the customers table); none is ever deleted.
CustomerIds == {1}

\* Money in a payment request and in payments.amount (a real column) is
\* kept in thousandths of a shilling; session totals and rates are whole
\* shillings.
Milli == 1000
KSh(x) == x * Milli

\* Amounts a cash payment request may carry.
CashAmounts == {0, KSh(99), KSh(250)}

Slots == 1..NumSlots

VARIABLES stations, sessions, payments, stats, customers, now, ticks,
          pc, loc, res, split, mpesa, modal

dbVars == <<stations, sessions, payments, stats, customers>>
\* client state: the split-payment dialog, the M-Pesa payment page and the
\* payment dialog of a station
uiVars == <<split, mpesa, modal>>
vars   == <<stations, sessions, payments, stats, customers, now, ticks,
            pc, loc, res, split, mpesa, modal>>

\* ------------------------------------------------------------- helpers
Max(a, b) == IF a >= b THEN a ELSE b

\* Math.ceil(a / b) and Math.floor(a / b) for a >= 0, b > 0
CeilDiv(a, b)  == (a + b - 1) \div b
FloorDiv(a, b) == a \div b

\* today.setHours(0, 0, 0, 0): the calendar day a clock value falls in
Today(t) == t \div SecondsPerDay

NoLocals == [op |-> "none"]
NoResponse == [op |-> "none", status |-> 0]

\* stats row selected by  where(eq(stats.date, today)) : first match or 0
SelectStat(today) ==
    IF \E i \in 1..Len(stats) : stats[i].date = today
    THEN CHOOSE i \in 1..Len(stats) :
            /\ stats[i].date = today
            /\ \A j \in 1..Len(stats) : stats[j].date = today => i <= j
    ELSE 0

\* requests in flight that will still insert a row
PendingSessionInserts ==
    Cardinality({r \in Slots : pc[r] \in {"start_getStation", "start_insertSession"}})
PendingPaymentInserts ==
    Cardinality({r \in Slots : pc[r] \notin {"idle", "payCash_getUpdated",
                                              "payMpesa_getUpdated"}
                                 /\ loc[r].op \in {"end", "cash", "payCash",
                                                   "payCreate", "payMpesa"}})

Quiescent == \A r \in Slots : pc[r] = "idle"

\* an arriving request is served in the first free slot
Free(r) == pc[r] = "idle" /\ \A q \in Slots : q < r => pc[q] # "idle"

\* ----------------------------------------------------- client state
\* The split-payment dialog before it is given its props.  splits is the
\* component's list of parts; awaiting names the request the dialog waits
\* for; completed counts the calls of onPaymentComplete.
SplitUnmounted ==
    [mounted |-> FALSE, isOpen |-> FALSE,
     totalAmount |-> 0, sessionId |-> NULL, customerId |-> NULL,
     splits |-> <<>>, activeIndex |-> 1,
     isCreatingTransaction |-> FALSE,
     checkoutRequestId |-> FALSE, requestId |-> FALSE,
     awaiting |-> "none", awaitingIndex |-> 0,
     completed |-> 0]

\* The payment page before an M-Pesa payment is started.  polling: the
\* status interval is set; statusChecks: the loop's counter; inFlight: the
\* status requests not yet answered; succeeded counts the calls of
\* onSuccess; confirmed: a status request was answered 'completed'.
MpesaIdle ==
    [mpesaStatus |-> "idle", isProcessing |-> FALSE,
     polling |-> FALSE, statusChecks |-> 0, inFlight |-> 0,
     succeeded |-> 0, confirmed |-> FALSE, awaiting |-> "none"]

\* The payment dialog of a station before Pay is clicked.  before: the
\* number of payment rows when the operation began; errors counts the
\* failures shown to the user; completed the calls of onPaymentComplete.
ModalIdle ==
    [isProcessing |-> FALSE, awaiting |-> "none", amount |-> 0,
     before |-> 0, errors |-> 0, completed |-> 0]

\* ---------------------------------------------------------------- Init
Init ==
    /\ stations  = <<>>
    /\ sessions  = <<>>
    /\ payments  = <<>>
    /\ stats     = <<>>
    /\ customers = [c \in CustomerIds |-> [loyaltyPoints |-> 0]]
    /\ now   = 0
    /\ ticks = 0
    /\ pc  = [r \in Slots |-> "idle"]
    /\ loc = [r \in Slots |-> NoLocals]
    /\ res = NoResponse
    /\ split = SplitUnmounted
    /\ mpesa = MpesaIdle
    /\ modal = ModalIdle

\* A handler answers: the slot is free again; res is the response sent
\* last (the operation answered and its HTTP status).
Respond(r, op, status) ==
    /\ pc'  = [pc  EXCEPT ![r] = "idle"]
    /\ loc' = [loc EXCEPT ![r] = NoLocals]
    /\ res' = [op |-> op, status |-> status]

Goto(r, label, locals) ==
    /\ pc'  = [pc  EXCEPT ![r] = label]
    /\ loc' = [loc EXCEPT ![r] = locals]
    /\ UNCHANGED res

\* A request is accepted: its handler starts with the given locals.
Accept(r, label, locals) ==
    /\ pc'  = [pc  EXCEPT ![r] = label]
    /\ loc' = [loc EXCEPT ![r] = locals]
    /\ res' = NoResponse

\* The wall clock advances.
Tick ==
    /\ ticks < MaxTicks
    /\ \E d \in TickSteps : now' = now + d
    /\ ticks' = ticks + 1
    /\ UNCHANGED <<dbVars, pc, loc, res, uiVars>>

\* ------------------------------------------------------ station registry
\* POST /api/stations : insertStationSchema.parse, storage.createStation.
\* The insert schema keeps the optional status field of the body; the
\* column default applies when the body has none.
CreateStation(r, status, rate, gameRate) ==
    /\ Free(r)
    /\ Len(stations) < MaxStations
    /\ stations' = Append(stations,
                     [status      |-> status,
                      ratePerHour |-> rate,
                      ratePerGame |-> gameRate])
    /\ Respond(r, "createStation", 201)
    /\ UNCHANGED <<sessions, payments, stats, customers, now, ticks, uiVars>>

\* storage.updateStation : UPDATE stations SET ... WHERE id = ? RETURNING
\* (fields absent from the patch keep their value)
updateStation(id, status, gameRate) ==
    [stations EXCEPT ![id] =
        [status      |-> IF status = Absent THEN @.status ELSE status,
         ratePerHour |-> @.ratePerHour,
         ratePerGame |-> IF gameRate = NULL THEN @.ratePerGame ELSE gameRate]]

\* PATCH /api/stations/:id
PatchStation(r, id, status, gameRate) ==
    /\ Free(r)
    /\ IF id \in 1..Len(stations)
       THEN /\ stations' = updateStation(id, status, gameRate)
            /\ Respond(r, "patchStation", 200)
       ELSE /\ UNCHANGED stations
            /\ Respond(r, "patchStation", 404)
    /\ UNCHANGED <<sessions, payments, stats, customers, now, ticks, uiVars>>

\* POST /api/stations/:id/maintenance
SetMaintenance(r, id) ==
    /\ Free(r)
    /\ IF id \in 1..Len(stations)
       THEN /\ stations' = updateStation(id, "MAINTENANCE", NULL)
            /\ Respond(r, "setMaintenance", 200)
       ELSE /\ UNCHANGED stations
            /\ Respond(r, "setMaintenance", 404)
    /\ UNCHANGED <<sessions, payments, stats, customers, now, ticks, uiVars>>

\* ------------------------------------------------------- session start
\* POST /api/sessions arrives: the handler issues storage.getStation.
StartRequest(r, stationId, customerId, sessionType, valid) ==
    /\ Free(r)
    /\ Len(sessions) + PendingSessionInserts < MaxSessions
    /\ Accept(r, "start_getStation",
            [op |-> "start", stationId |-> stationId,
             customerId |-> customerId, sessionType |-> sessionType,
             valid |-> valid])
    /\ UNCHANGED <<dbVars, now, ticks, uiVars>>

\* StartGetStation with the availability check reduced to "not ACTIVE"
StartGetStation_BusyOnly(r) ==
    /\ pc[r] = "start_getStation"
    /\ IF loc[r].stationId \notin 1..Len(stations)
       THEN Respond(r, loc[r].op, 404)
       ELSE IF stations[loc[r].stationId].status = "ACTIVE"
       THEN Respond(r, loc[r].op, 400)
       ELSE IF ~loc[r].valid
       THEN Respond(r, loc[r].op, 400)
       ELSE Goto(r, "start_insertSession", loc[r])
    /\ UNCHANGED <<dbVars, now, ticks, uiVars>>

\* getStation answers; availability check; insertSessionSchema.parse
StartGetStation(r) ==
    /\ pc[r] = "start_getStation"
    /\ IF loc[r].stationId \notin 1..Len(stations)
       THEN Respond(r, loc[r].op, 404)
       ELSE IF stations[loc[r].stationId].status # "AVAILABLE"
       THEN Respond(r, loc[r].op, 400)
       ELSE IF ~loc[r].valid
       THEN Respond(r, loc[r].op, 400)
       ELSE Goto(r, "start_insertSession", loc[r])
    /\ UNCHANGED <<dbVars, now, ticks, uiVars>>

\* createSession: INSERT INTO sessions ... RETURNING
\* (status defaults to ACTIVE, start_time to now()); id is newSession.id
StartInsertSession(r) ==
    /\ pc[r] = "start_insertSession"
    /\ sessions' = Append(sessions,
                     [stationId   |-> loc[r].stationId,
                      customerId  |-> loc[r].customerId,
                      sessionType |-> loc[r].sessionType,
                      startTime   |-> now,
                      endTime     |-> NULL,
                      duration    |-> NULL,
                      status      |-> "ACTIVE",
                      totalAmount |-> NULL])
    /\ Goto(r, "start_updateStation",
            [op |-> "start", stationId |-> loc[r].stationId,
             id |-> Len(sessions) + 1])
    /\ UNCHANGED <<stations, payments, stats, customers, now, ticks, uiVars>>

\* createSession: UPDATE stations SET status = 'ACTIVE'; then today is read
StartUpdateStation(r) ==
    /\ pc[r] = "start_updateStation"
    /\ stations' = [stations EXCEPT ![loc[r].stationId].status = "ACTIVE"]
    /\ Goto(r, "start_selectStat",
            [op |-> "start", id |-> loc[r].id, today |-> Today(now)])
    /\ UNCHANGED <<sessions, payments, stats, customers, now, ticks, uiVars>>

\* createSession: SELECT FROM stats WHERE date = today
StartSelectStat(r) ==
    /\ pc[r] = "start_selectStat"
    /\ LET i == SelectStat(loc[r].today) IN
         Goto(r, "start_writeStat",
              [op |-> "start", id |-> loc[r].id,
               today |-> loc[r].today, statId |-> i,
               activeStations |-> IF i = 0 THEN 0 ELSE stats[i].activeStations,
               activeUsers    |-> IF i = 0 THEN 0 ELSE stats[i].activeUsers])
    /\ UNCHANGED <<dbVars, now, ticks, uiVars>>

\* StartWriteStat on a stats table whose date column is not unique
StartWriteStat_NoUnique(r) ==
    /\ pc[r] = "start_writeStat"
    /\ IF loc[r].statId # 0
       THEN stats' = [stats EXCEPT ![loc[r].statId] =
                        [@ EXCEPT !.activeStations = loc[r].activeStations + 1,
                                  !.activeUsers    = loc[r].activeUsers + 1]]
       ELSE stats' = Append(stats,
                       [date           |-> loc[r].today,
                        activeStations |-> 1,
                        activeUsers    |-> 1,
                        totalRevenue   |-> 0,
                        totalHours     |-> 0])
    /\ Respond(r, loc[r].op, 201)
    /\ UNCHANGED <<stations, sessions, payments, customers, now, ticks, uiVars>>

\* createSession: UPDATE stats (counters read + 1) or INSERT the day's row.
\* stats.date is unique: a second insert for the day throws and the
\* handler answers 500.
StartWriteStat(r) ==
    /\ pc[r] = "start_writeStat"
    /\ IF loc[r].statId # 0
       THEN /\ stats' = [stats EXCEPT ![loc[r].statId] =
                           [@ EXCEPT !.activeStations = loc[r].activeStations + 1,
                                     !.activeUsers    = loc[r].activeUsers + 1]]
            /\ Respond(r, loc[r].op, 201)
       ELSE IF SelectStat(loc[r].today) # 0
       THEN /\ UNCHANGED stats
            /\ Respond(r, loc[r].op, 500)
       ELSE /\ stats' = Append(stats,
                          [date           |-> loc[r].today,
                           activeStations |-> 1,
                           activeUsers    |-> 1,
                           totalRevenue   |-> 0,
                           totalHours     |-> 0])
            /\ Respond(r, loc[r].op, 201)
    /\ UNCHANGED <<stations, sessions, payments, customers, now, ticks, uiVars>>

\* --------------------------------------------------------- session end
\* station.ratePerGame || 0
FixedCharge(ratePerGame) ==
    IF ratePerGame = NULL \/ ratePerGame = 0 THEN 0 ELSE ratePerGame

\* Math.ceil(durationInHours * station.ratePerHour)
HourlyCharge(elapsed, ratePerHour) ==
    CeilDiv(elapsed * ratePerHour, SecondsPerHour)

\* TotalAmount billing every session by the hour
TotalAmount_AlwaysHourly(sessionType, elapsed, station) ==
    HourlyCharge(elapsed, station.ratePerHour)

\* charge computation of POST /api/sessions/:id/end
TotalAmount(sessionType, elapsed, station) ==
    IF sessionType = "FIXED"
    THEN FixedCharge(station.ratePerGame)
    ELSE HourlyCharge(elapsed, station.ratePerHour)

\* DurationInMinutes rounding up instead of down
DurationInMinutes_Ceil(elapsed) == CeilDiv(elapsed, SecondsPerMinute)

\* Math.floor((endTime - startTime) / 60000)
DurationInMinutes(elapsed) == FloorDiv(elapsed, SecondsPerMinute)

\* POST /api/sessions/:id/end arrives: the handler issues getSession.
EndRequest(r, id) ==
    /\ Free(r)
    /\ Len(payments) + PendingPaymentInserts < MaxPayments
    /\ Accept(r, "end_getSession", [op |-> "end", id |-> id])
    /\ UNCHANGED <<dbVars, now, ticks, uiVars>>

\* EndGetSession without the status check
EndGetSession_NoStatusCheck(r) ==
    /\ pc[r] = "end_getSession"
    /\ IF loc[r].id \notin 1..Len(sessions)
       THEN Respond(r, loc[r].op, 404)
       ELSE Goto(r, "end_getStation",
                 [op |-> "end", id |-> loc[r].id,
                  stationId   |-> sessions[loc[r].id].stationId,
                  customerId  |-> sessions[loc[r].id].customerId,
                  sessionType |-> sessions[loc[r].id].sessionType,
                  startTime   |-> sessions[loc[r].id].startTime])
    /\ UNCHANGED <<dbVars, now, ticks, uiVars>>

\* getSession answers; existence and status checks; getStation is issued
EndGetSession(r) ==
    /\ pc[r] = "end_getSession"
    /\ IF loc[r].id \notin 1..Len(sessions)
       THEN Respond(r, loc[r].op, 404)
       ELSE IF sessions[loc[r].id].status # "ACTIVE"
       THEN Respond(r, loc[r].op, 400)
       ELSE Goto(r, "end_getStation",
                 [op |-> "end", id |-> loc[r].id,
                  stationId   |-> sessions[loc[r].id].stationId,
                  customerId  |-> sessions[loc[r].id].customerId,
                  sessionType |-> sessions[loc[r].id].sessionType,
                  startTime   |-> sessions[loc[r].id].startTime])
    /\ UNCHANGED <<dbVars, now, ticks, uiVars>>

\* getStation answers; the charge is computed; storage.endSession is called
EndGetStation(r) ==
    /\ pc[r] = "end_getStation"
    /\ Goto(r, "end_selectSession",
            [op |-> "end", id |-> loc[r].id,
             customerId  |-> loc[r].customerId,
             totalAmount |-> TotalAmount(loc[r].sessionType,
                                         now - loc[r].startTime,
                                         stations[loc[r].stationId])])
    /\ UNCHANGED <<dbVars, now, ticks, uiVars>>

\* endSession: SELECT the session; endTime and duration are computed
EndSelectSession(r) ==
    /\ pc[r] = "end_selectSession"
    /\ Goto(r, "end_updateSession",
            [op |-> "end", id |-> loc[r].id,
             customerId  |-> loc[r].customerId,
             totalAmount |-> loc[r].totalAmount,
             stationId   |-> sessions[loc[r].id].stationId,
             endTime     |-> now,
             duration    |-> DurationInMinutes(now - sessions[loc[r].id].startTime)])
    /\ UNCHANGED <<dbVars, now, ticks, uiVars>>

\* endSession: UPDATE sessions SET status, endTime, duration, totalAmount
EndUpdateSession(r) ==
    /\ pc[r] = "end_updateSession"
    /\ sessions' = [sessions EXCEPT ![loc[r].id] =
                      [@ EXCEPT !.status      = "COMPLETED",
                                !.endTime     = loc[r].endTime,
                                !.duration    = loc[r].duration,
                                !.totalAmount = loc[r].totalAmount]]
    /\ Goto(r, "end_updateStation", loc[r])
    /\ UNCHANGED <<stations, payments, stats, customers, now, ticks, uiVars>>

\* endSession: UPDATE stations SET status = 'AVAILABLE'; then today is read
EndUpdateStation(r) ==
    /\ pc[r] = "end_updateStation"
    /\ stations' = [stations EXCEPT ![loc[r].stationId].status = "AVAILABLE"]
    /\ Goto(r, "end_selectStat",
            [op |-> "end", id |-> loc[r].id,
             customerId  |-> loc[r].customerId,
             totalAmount |-> loc[r].totalAmount,
             duration    |-> loc[r].duration,
             today       |-> Today(now)])
    /\ UNCHANGED <<sessions, payments, stats, customers, now, ticks, uiVars>>

\* EndSelectStat creating the day's row when there is none
EndSelectStat_InsertsRow(r) ==
    /\ pc[r] = "end_selectStat"
    /\ LET i == SelectStat(loc[r].today) IN
         /\ stats' = IF i # 0 THEN stats
                     ELSE Append(stats, [date           |-> loc[r].today,
                                         activeStations |-> 0,
                                         activeUsers    |-> 0,
                                         totalRevenue   |-> 0,
                                         totalHours     |-> 0])
         /\ Goto(r, "end_updateStat",
                 [op |-> "end", id |-> loc[r].id,
                  customerId  |-> loc[r].customerId,
                  totalAmount |-> loc[r].totalAmount,
                  duration    |-> loc[r].duration,
                  today       |-> loc[r].today,
                  statId      |-> IF i # 0 THEN i ELSE Len(stats) + 1,
                  activeStations |-> IF i # 0 THEN stats[i].activeStations ELSE 0,
                  activeUsers    |-> IF i # 0 THEN stats[i].activeUsers ELSE 0,
                  totalRevenue   |-> IF i # 0 THEN stats[i].totalRevenue ELSE 0,
                  totalHours     |-> IF i # 0 THEN stats[i].totalHours ELSE 0])
    /\ UNCHANGED <<stations, sessions, payments, customers, now, ticks, uiVars>>

\* endSession: SELECT FROM stats WHERE date = today.  Without a row for
\* today endSession returns and the handler goes on to createPayment.
EndSelectStat(r) ==
    /\ pc[r] = "end_selectStat"
    /\ LET i == SelectStat(loc[r].today) IN
         IF i = 0
         THEN Goto(r, "end_createPayment",
                   [op |-> "end", id |-> loc[r].id,
                    customerId  |-> loc[r].customerId,
                    totalAmount |-> loc[r].totalAmount])
         ELSE Goto(r, "end_updateStat",
                   [op |-> "end", id |-> loc[r].id,
                    customerId  |-> loc[r].customerId,
                    totalAmount |-> loc[r].totalAmount,
                    duration    |-> loc[r].duration,
                    today       |-> loc[r].today,
                    statId      |-> i,
                    activeStations |-> stats[i].activeStations,
                    activeUsers    |-> stats[i].activeUsers,
                    totalRevenue   |-> stats[i].totalRevenue,
                    totalHours     |-> stats[i].totalHours])
    /\ UNCHANGED <<dbVars, now, ticks, uiVars>>

\* EndUpdateStat decrementing without the floor at 0
EndUpdateStat_NoFloor(r) ==
    /\ pc[r] = "end_updateStat"
    /\ stats' = [stats EXCEPT ![loc[r].statId] =
                   [@ EXCEPT !.activeStations = loc[r].activeStations - 1,
                             !.activeUsers    = loc[r].activeUsers - 1,
                             !.totalRevenue   = loc[r].totalRevenue + loc[r].totalAmount,
                             !.totalHours     = loc[r].totalHours + loc[r].duration]]
    /\ Goto(r, "end_createPayment",
            [op |-> "end", id |-> loc[r].id,
             customerId  |-> loc[r].customerId,
             totalAmount |-> loc[r].totalAmount])
    /\ UNCHANGED <<stations, sessions, payments, customers, now, ticks, uiVars>>

\* endSession: UPDATE stats from the counters read.  totalHours is kept in
\* sixtieths of an hour (the code adds durationInMinutes / 60).
EndUpdateStat(r) ==
    /\ pc[r] = "end_updateStat"
    /\ stats' = [stats EXCEPT ![loc[r].statId] =
                   [@ EXCEPT !.activeStations = Max(0, loc[r].activeStations - 1),
                             !.activeUsers    = Max(0, loc[r].activeUsers - 1),
                             !.totalRevenue   = loc[r].totalRevenue + loc[r].totalAmount,
                             !.totalHours     = loc[r].totalHours + loc[r].duration]]
    /\ Goto(r, "end_createPayment",
            [op |-> "end", id |-> loc[r].id,
             customerId  |-> loc[r].customerId,
             totalAmount |-> loc[r].totalAmount])
    /\ UNCHANGED <<stations, sessions, payments, customers, now, ticks, uiVars>>

\* storage.createPayment : INSERT INTO payments ... RETURNING
\* (status defaults to PENDING when the values carry no status field)
createPayment(sessionId, customerId, amount, paymentMethod, status) ==
    Append(payments,
           [sessionId     |-> sessionId,
            customerId    |-> customerId,
            amount        |-> amount,
            paymentMethod |-> paymentMethod,
            status        |-> IF status = Absent THEN "PENDING" ELSE status])

\* the handler records the pending payment and answers with the session
EndCreatePayment(r) ==
    /\ pc[r] = "end_createPayment"
    /\ payments' = createPayment(loc[r].id, loc[r].customerId,
                                 KSh(loc[r].totalAmount), "PENDING", Absent)
    /\ Respond(r, loc[r].op, 200)
    /\ UNCHANGED <<stations, sessions, stats, customers, now, ticks, uiVars>>

\* ------------------------------------------------------- cash payments
\* storage.awardLoyaltyPoints : logs and returns, no table is written
awardLoyaltyPoints(userId, points) == customers

\* Math.floor(amount / 100) points, awarded when the body has a userId
AwardFor(userId, amount) ==
    IF userId # NULL
    THEN awardLoyaltyPoints(userId, FloorDiv(amount, KSh(100)))
    ELSE customers

\* POST /api/cashpayments (processCashPayment) arrives
CashRequest(r, transactionId, amount, userId) ==
    /\ Free(r)
    /\ Len(payments) + PendingPaymentInserts < MaxPayments
    /\ IF transactionId = 0 \/ amount = 0
       THEN Respond(r, "cash", 400)
       ELSE Accept(r, "cash_getSession",
                 [op |-> "cash", transactionId |-> transactionId,
                  amount |-> amount, userId |-> userId])
    /\ UNCHANGED <<dbVars, now, ticks>>

\* getSession answers; createPayment is issued
CashGetSession(r) ==
    /\ pc[r] = "cash_getSession"
    /\ IF loc[r].transactionId \notin 1..Len(sessions)
       THEN Respond(r, loc[r].op, 404)
       ELSE Goto(r, "cash_createPayment", loc[r])
    /\ UNCHANGED <<dbVars, now, ticks, uiVars>>

\* the COMPLETED cash payment is inserted; loyalty points are awarded
CashCreatePayment(r) ==
    /\ pc[r] = "cash_createPayment"
    /\ payments' = createPayment(loc[r].transactionId, NULL,
                                 loc[r].amount, "CASH", "COMPLETED")
    /\ customers' = AwardFor(loc[r].userId, loc[r].amount)
    /\ Respond(r, loc[r].op, 200)
    /\ UNCHANGED <<stations, sessions, stats, now, ticks, uiVars>>

\* POST /api/payments/cash arrives: the handler issues getTransaction
PayCashRequest(r, transactionId, amount, userId) ==
    /\ Free(r)
    /\ Len(payments) + PendingPaymentInserts < MaxPayments
    /\ IF transactionId = 0 \/ amount = 0
       THEN Respond(r, "payCash", 400)
       ELSE Accept(r, "payCash_getTransaction",
                 [op |-> "payCash", transactionId |-> transactionId,
                  amount |-> amount, userId |-> userId])
    /\ UNCHANGED <<dbVars, now, ticks>>

\* getTransaction answers (a default transaction when the id is no session)
PayCashGetTransaction(r) ==
    /\ pc[r] = "payCash_getTransaction"
    /\ Goto(r, "payCash_createPayment", loc[r])
    /\ UNCHANGED <<dbVars, now, ticks, uiVars>>

\* createPayment with { paymentMethod: 'CASH', payment_status: 'COMPLETED' }:
\* payment_status is no column property, so the row takes the default
\* status; session_id references sessions, an unknown id makes the insert
\* throw and the handler answers 500.  Then loyalty points are awarded.
PayCashCreatePayment(r) ==
    /\ pc[r] = "payCash_createPayment"
    /\ IF loc[r].transactionId \notin 1..Len(sessions)
       THEN /\ UNCHANGED <<payments, customers>>
            /\ Respond(r, loc[r].op, 500)
       ELSE /\ payments' = createPayment(loc[r].transactionId, NULL,
                                         loc[r].amount, "CASH", Absent)
            /\ customers' = AwardFor(loc[r].userId, loc[r].amount)
            /\ Goto(r, "payCash_getUpdated", loc[r])
    /\ UNCHANGED <<stations, sessions, stats, now, ticks, uiVars>>

\* getTransaction answers again; PAYMENT_COMPLETED is broadcast
PayCashGetUpdated(r) ==
    /\ pc[r] = "payCash_getUpdated"
    /\ Respond(r, loc[r].op, 200)
    /\ UNCHANGED <<dbVars, now, ticks, uiVars>>

\* -------------------------------------------- payment transactions
\* POST /api/payments arrives: the body carries sessionId, customerId and
\* amount; a missing (zero) amount is answered 400.
PayCreateRequest(r, sessionId, customerId, amount) ==
    /\ Free(r)
    /\ Len(payments) + PendingPaymentInserts < MaxPayments
    /\ IF amount = 0
       THEN Respond(r, "payCreate", 400)
       ELSE Accept(r, "payCreate_createPayment",
                 [op |-> "payCreate", sessionId |-> sessionId,
                  customerId |-> customerId, amount |-> amount])
    /\ UNCHANGED <<dbVars, now, ticks>>

\* createPayment with { paymentMethod: PENDING, payment_status: 'PENDING' }:
\* session_id and customer_id are foreign keys, an unknown id makes the
\* insert throw (500); the answer carries the new payment's id.
PayCreateInsert(r) ==
    /\ pc[r] = "payCreate_createPayment"
    /\ IF \/ loc[r].sessionId \notin (1..Len(sessions)) \cup {NULL}
          \/ loc[r].customerId \notin CustomerIds \cup {NULL}
       THEN /\ UNCHANGED payments
            /\ Respond(r, loc[r].op, 500)
       ELSE /\ payments' = createPayment(loc[r].sessionId, loc[r].customerId,
                                         loc[r].amount, "PENDING", Absent)
            /\ Respond(r, loc[r].op, 201)
    /\ UNCHANGED <<stations, sessions, stats, customers, now, ticks, uiVars>>

\* POST /api/payments/mpesa arrives: the handler issues getTransaction
PayMpesaRequest(r, transactionId, phoneNumber, amount, userId) ==
    /\ Free(r)
    /\ Len(payments) + PendingPaymentInserts < MaxPayments
    /\ IF transactionId = 0 \/ ~phoneNumber \/ amount = 0
       THEN Respond(r, "payMpesa", 400)
       ELSE Accept(r, "payMpesa_getTransaction",
                 [op |-> "payMpesa", transactionId |-> transactionId,
                  amount |-> amount, userId |-> userId])
    /\ UNCHANGED <<dbVars, now, ticks>>

\* getTransaction answers (a default transaction when the id is no session)
PayMpesaGetTransaction(r) ==
    /\ pc[r] = "payMpesa_getTransaction"
    /\ Goto(r, "payMpesa_createPayment", loc[r])
    /\ UNCHANGED <<dbVars, now, ticks, uiVars>>

\* createPayment with { paymentMethod: 'MPESA', status: 'COMPLETED' } as soon
\* as the request is made (the provider call is simulated); an unknown
\* session id makes the insert throw (500).  Loyalty points are awarded.
PayMpesaCreatePayment(r) ==
    /\ pc[r] = "payMpesa_createPayment"
    /\ IF loc[r].transactionId \notin 1..Len(sessions)
       THEN /\ UNCHANGED <<payments, customers>>
            /\ Respond(r, loc[r].op, 500)
       ELSE /\ payments' = createPayment(loc[r].transactionId, NULL,
                                         loc[r].amount, "MPESA", "COMPLETED")
            /\ customers' = AwardFor(loc[r].userId, loc[r].amount)
            /\ Goto(r, "payMpesa_getUpdated", loc[r])
    /\ UNCHANGED <<stations, sessions, stats, now, ticks, uiVars>>

\* getTransaction answers again; PAYMENT_COMPLETED is broadcast and the
\* answer carries the checkoutRequestId
PayMpesaGetUpdated(r) ==
    /\ pc[r] = "payMpesa_getUpdated"
    /\ Respond(r, loc[r].op, 200)
    /\ UNCHANGED <<dbVars, now, ticks, uiVars>>

\* ------------------------------------------------ split-payment dialog
\* splits.length >= 5 : the most parts a payment can be split into
MaxSplitsAllowed == 5
\* Math.abs(totalSplitAmount - totalAmount) < 0.01, in thousandths
Tolerance == 10

\* props the dialog is opened with, and amounts typed into a part's field
SplitTotals == {KSh(100)}
SplitInputs == {0, KSh(40)}

Abs(x) == IF x >= 0 THEN x ELSE 0 - x
\* a / b of a possibly negative a, to the thousandth
Quot(a, b) == IF a >= 0 THEN a \div b ELSE 0 - ((0 - a) \div b)

RECURSIVE SumOver(_, _)
\* splits.reduce((acc, split) => acc + f(split), 0) over the parts in I
SumOver(parts, I) ==
    IF I = {} THEN 0
    ELSE LET i == CHOOSE j \in I : TRUE
         IN  parts[i].amount + SumOver(parts, I \ {i})

totalSplitAmount(parts) == SumOver(parts, DOMAIN parts)
PaidParts(parts)   == {i \in DOMAIN parts : parts[i].paid}
UnpaidParts(parts) == {i \in DOMAIN parts : ~parts[i].paid}
paidAmount(parts)  == SumOver(parts, PaidParts(parts))

isBalanced(d) == Abs(totalSplitAmount(d.splits) - d.totalAmount) < Tolerance

\* the payment panel of the active part is rendered
PanelShown(d) ==
    /\ d.activeIndex \in DOMAIN d.splits
    /\ d.splits[d.activeIndex].transactionId # NULL

\* a render: the M-Pesa and QR components keep their state only while the
\* payment panel is rendered, and only one tab of the panel is rendered
Render(d) ==
    IF PanelShown(d) THEN d
    ELSE [d EXCEPT !.checkoutRequestId = FALSE, !.requestId = FALSE]

\* addSplit: every part, paid or not, gets totalAmount / (n + 1)
addSplit(d) ==
    LET newAmount == d.totalAmount \div (Len(d.splits) + 1)
        newSplits == [i \in DOMAIN d.splits |->
                         [d.splits[i] EXCEPT !.amount = newAmount]]
    IN  [d EXCEPT !.splits = Append(newSplits,
                       [amount |-> newAmount, paid |-> FALSE,
                        transactionId |-> NULL])]

\* removeSplit: the part is spliced out, the unpaid parts share what the
\* paid parts leave of the total, activeIndex is pulled back into range
removeSplit(d, index) ==
    LET spliced == [i \in 1..(Len(d.splits) - 1) |->
                       IF i < index THEN d.splits[i] ELSE d.splits[i + 1]]
        unpaid  == UnpaidParts(spliced)
        remainingAmount == d.totalAmount - paidAmount(spliced)
        newSplits ==
            IF unpaid = {} THEN spliced
            ELSE [i \in DOMAIN spliced |->
                     IF spliced[i].paid THEN spliced[i]
                     ELSE [spliced[i] EXCEPT !.amount =
                              Quot(remainingAmount, Cardinality(unpaid))]]
    IN  [d EXCEPT !.splits = newSplits,
                  !.activeIndex = IF @ > Len(newSplits)
                                  THEN Max(1, Len(newSplits)) ELSE @]

\* updateSplitAmount: the part takes the typed amount, the other unpaid
\* parts share the rest, never less than 0
updateSplitAmount(d, index, amount) ==
    LET others == UnpaidParts(d.splits) \ {index}
        remainingAmount == d.totalAmount - (amount + paidAmount(d.splits))
    IN  [d EXCEPT !.splits =
            [i \in DOMAIN d.splits |->
                IF i = index THEN [d.splits[i] EXCEPT !.amount = amount]
                ELSE IF i \in others
                THEN [d.splits[i] EXCEPT !.amount =
                         Max(0, Quot(remainingAmount, Cardinality(others)))]
                ELSE d.splits[i]]]

\* handlePaymentSuccess completing as soon as no later part is unpaid
handlePaymentSuccess_NoAllPaidCheck(d, index) ==
    LET newSplits == [d.splits EXCEPT ![index].paid = TRUE]
        later     == {i \in UnpaidParts(newSplits) : i > index}
    IN  IF later # {}
        THEN [d EXCEPT !.splits = newSplits,
                       !.activeIndex = CHOOSE i \in later :
                                          \A j \in later : i <= j]
        ELSE [d EXCEPT !.splits = newSplits,
                       !.completed = @ + 1, !.isOpen = FALSE]

\* handlePaymentSuccess: the part is marked paid; the next unpaid part after
\* it becomes active; with none after it and every part paid,
\* onPaymentComplete and onClose are called
handlePaymentSuccess(d, index) ==
    LET newSplits == [d.splits EXCEPT ![index].paid = TRUE]
        later     == {i \in UnpaidParts(newSplits) : i > index}
    IN  IF later # {}
        THEN [d EXCEPT !.splits = newSplits,
                       !.activeIndex = CHOOSE i \in later :
                                          \A j \in later : i <= j]
        ELSE IF UnpaidParts(newSplits) = {}
        THEN [d EXCEPT !.splits = newSplits,
                       !.completed = @ + 1, !.isOpen = FALSE]
        ELSE [d EXCEPT !.splits = newSplits]

\* the dialog is open and waits for no answer: the user can act
SplitReady == split.isOpen /\ split.awaiting = "none"

\* The dialog is shown for a payment of totalAmount.
SplitOpen(totalAmount, sessionId, customerId) ==
    /\ ~split.mounted
    /\ split' = [SplitUnmounted EXCEPT
                    !.mounted = TRUE, !.isOpen = TRUE,
                    !.totalAmount = totalAmount,
                    !.sessionId = sessionId, !.customerId = customerId,
                    !.splits = <<[amount |-> totalAmount, paid |-> FALSE,
                                  transactionId |-> NULL]>>]
    /\ UNCHANGED <<dbVars, now, ticks, pc, loc, res, mpesa, modal>>

\* Cancel: onClose
SplitCancel ==
    /\ SplitReady
    /\ split' = [split EXCEPT !.isOpen = FALSE]
    /\ UNCHANGED <<dbVars, now, ticks, pc, loc, res, mpesa, modal>>

\* Add Split
SplitAdd ==
    /\ SplitReady
    /\ Len(split.splits) < MaxSplitsAllowed
    /\ Len(split.splits) < MaxParts
    /\ split' = Render(addSplit(split))
    /\ UNCHANGED <<dbVars, now, ticks, pc, loc, res, mpesa, modal>>

\* the remove button of an unpaid part
SplitRemove(index) ==
    /\ SplitReady
    /\ index \in DOMAIN split.splits
    /\ Len(split.splits) > 1
    /\ ~split.splits[index].paid
    /\ split' = Render(removeSplit(split, index))
    /\ UNCHANGED <<dbVars, now, ticks, pc, loc, res, mpesa, modal>>

\* an amount is typed into the field of an unpaid part
SplitUpdateAmount(index, amount) ==
    /\ SplitReady
    /\ index \in DOMAIN split.splits
    /\ ~split.splits[index].paid
    /\ split' = Render(updateSplitAmount(split, index, amount))
    /\ UNCHANGED <<dbVars, now, ticks, pc, loc, res, mpesa, modal>>

\* Pay (handlePreparePayment): shown for an unpaid part without a
\* transaction, disabled while unbalanced; createTransaction posts the part
SplitPay(r, index) ==
    /\ SplitReady
    /\ index \in DOMAIN split.splits
    /\ ~split.splits[index].paid
    /\ split.splits[index].transactionId = NULL
    /\ ~split.isCreatingTransaction
    /\ isBalanced(split)
    /\ PayCreateRequest(r, split.sessionId, split.customerId,
                        split.splits[index].amount)
    /\ split' = [split EXCEPT !.isCreatingTransaction = TRUE,
                              !.awaiting = "createTransaction",
                              !.awaitingIndex = index]
    /\ UNCHANGED <<mpesa, modal>>

\* createTransaction answers: the part takes the transaction id returned
\* (the id of the payment row) and becomes the active part
SplitPayDone ==
    /\ split.awaiting = "createTransaction"
    /\ Quiescent
    /\ LET index == split.awaitingIndex
           d == [split EXCEPT !.isCreatingTransaction = FALSE,
                              !.awaiting = "none", !.awaitingIndex = 0]
       IN  split' =
             IF res.status = 201
             THEN Render([d EXCEPT !.splits[index].transactionId = Len(payments),
                                !.activeIndex = index])
             ELSE Render(d)
    /\ UNCHANGED <<dbVars, now, ticks, pc, loc, res, mpesa, modal>>

\* Mark Paid: shown for the active unpaid part that has a transaction
SplitMarkPaid(index) ==
    /\ SplitReady
    /\ index \in DOMAIN split.splits
    /\ ~split.splits[index].paid
    /\ split.splits[index].transactionId # NULL
    /\ index = split.activeIndex
    /\ split' = Render(handlePaymentSuccess(split, index))
    /\ UNCHANGED <<dbVars, now, ticks, pc, loc, res, mpesa, modal>>

\* Complete Cash Payment in the panel of the active part: processCashPayment
\* posts the part's transaction id and amount
SplitProcessCash(r) ==
    /\ SplitReady
    /\ PanelShown(split)
    /\ PayCashRequest(r, split.splits[split.activeIndex].transactionId,
                      split.splits[split.activeIndex].amount,
                      split.customerId)
    /\ split' = [split EXCEPT !.awaiting = "cash",
                              !.awaitingIndex = split.activeIndex,
                              !.checkoutRequestId = FALSE,
                              !.requestId = FALSE]
    /\ UNCHANGED <<mpesa, modal>>

\* processCashPayment answers: onSuccess on 200, a toast otherwise
SplitCashDone ==
    /\ split.awaiting = "cash"
    /\ Quiescent
    /\ LET index == split.awaitingIndex
           d == [split EXCEPT !.awaiting = "none", !.awaitingIndex = 0]
       IN  split' =
             IF res.status = 200
             THEN Render(handlePaymentSuccess(d, index))
             ELSE Render(d)
    /\ UNCHANGED <<dbVars, now, ticks, pc, loc, res, mpesa, modal>>

\* Pay in the M-Pesa tab: initiateMpesaPayment posts the part
SplitMpesaInitiate(r) ==
    /\ SplitReady
    /\ PanelShown(split)
    /\ ~split.checkoutRequestId
    /\ PayMpesaRequest(r, split.splits[split.activeIndex].transactionId, TRUE,
                       split.splits[split.activeIndex].amount,
                       split.customerId)
    /\ split' = [split EXCEPT !.awaiting = "mpesa",
                              !.awaitingIndex = split.activeIndex]
    /\ UNCHANGED <<mpesa, modal>>

\* initiateMpesaPayment answers: the checkoutRequestId is kept on 200
SplitMpesaDone ==
    /\ split.awaiting = "mpesa"
    /\ Quiescent
    /\ LET index == split.awaitingIndex
           d == [split EXCEPT !.awaiting = "none", !.awaitingIndex = 0]
       IN  split' =
             IF res.status = 200
             THEN Render([d EXCEPT !.checkoutRequestId = TRUE,
                                   !.requestId = FALSE])
             ELSE Render(d)
    /\ UNCHANGED <<dbVars, now, ticks, pc, loc, res, mpesa, modal>>

\* "I have paid, check status" in the M-Pesa tab: a timer of 2 seconds,
\* then onSuccess; no request is made
SplitMpesaCheckStatus ==
    /\ SplitReady
    /\ PanelShown(split)
    /\ split.checkoutRequestId
    /\ split' = Render(handlePaymentSuccess(split, split.activeIndex))
    /\ UNCHANGED <<dbVars, now, ticks, pc, loc, res, mpesa, modal>>

\* Generate QR Code: POST /api/payments/mpesa/qr answers a code and a
\* requestId for any transaction id and non-zero amount, writing nothing
SplitGenerateQR ==
    /\ SplitReady
    /\ PanelShown(split)
    /\ ~split.requestId
    /\ split.splits[split.activeIndex].amount # 0
    /\ split' = Render([split EXCEPT !.requestId = TRUE,
                                     !.checkoutRequestId = FALSE])
    /\ UNCHANGED <<dbVars, now, ticks, pc, loc, res, mpesa, modal>>

\* "I have paid, check status" in the QR tab: a timer, then onSuccess
SplitQrCheckStatus ==
    /\ SplitReady
    /\ PanelShown(split)
    /\ split.requestId
    /\ split' = Render(handlePaymentSuccess(split, split.activeIndex))
    /\ UNCHANGED <<dbVars, now, ticks, pc, loc, res, mpesa, modal>>

\* getLatestPaymentForSession: the session's payment rows by createdAt
\* descending, the first of them, or 0
getLatestPaymentForSession(sessionId) ==
    LET rows == {p \in 1..Len(payments) : payments[p].sessionId = sessionId}
    IN  IF rows = {} THEN 0
        ELSE CHOOSE p \in rows : \A q \in rows : q <= p

\* getTransaction(id).paymentStatus : latestPayment?.status || 'PENDING' for
\* a session, 'UNKNOWN' for an id that is no session
paymentStatus(transactionId) ==
    IF transactionId \notin 1..Len(sessions) THEN "UNKNOWN"
    ELSE LET latest == getLatestPaymentForSession(transactionId)
         IN  IF latest = 0 THEN "PENDING" ELSE payments[latest].status

\* broadcast({ type, data }): the WebSocket event a handler sends to the
\* connected clients in the synchronous code that answers the request; it is
\* determined by the operation and the status of the answer.
broadcast(op, status) ==
    IF      op = "createStation"  /\ status = 201 THEN "STATION_CREATED"
    ELSE IF op = "patchStation"   /\ status = 200 THEN "STATION_UPDATED"
    ELSE IF op = "setMaintenance" /\ status = 200 THEN "STATION_MAINTENANCE"
    ELSE IF op = "start"          /\ status = 201 THEN "SESSION_CREATED"
    ELSE IF op = "end"            /\ status = 200 THEN "SESSION_ENDED"
    ELSE IF op = "payCreate"      /\ status = 201 THEN "PAYMENT_CREATED"
    ELSE IF op \in {"payCash", "payMpesa"} /\ status = 200
                                                  THEN "PAYMENT_COMPLETED"
    ELSE "none"

\* ---------------------------------------------------------------- Next
\* a request arrives at a free slot
Arrival ==
    \/ \E r \in Slots, st \in StationStatus, hr \in HourRates, gr \in GameRates :
          CreateStation(r, st, hr, gr)
    \/ \E r \in Slots, id \in 1..MaxStations, st \in StationStatus \cup {Absent},
          gr \in GameRates : PatchStation(r, id, st, gr)
    \/ \E r \in Slots, id \in 1..MaxStations : SetMaintenance(r, id)
    \/ \E r \in Slots, id \in 1..MaxStations, c \in CustomerIds,
          ty \in SessionType, ok \in BOOLEAN : StartRequest(r, id, c, ty, ok)
    \/ \E r \in Slots, id \in 1..MaxSessions : EndRequest(r, id)

\* a handler in flight executes its next database statement
Step ==
    \/ \E r \in Slots : StartGetStation(r)
    \/ \E r \in Slots : StartInsertSession(r)
    \/ \E r \in Slots : StartUpdateStation(r)
    \/ \E r \in Slots : StartSelectStat(r)
    \/ \E r \in Slots : StartWriteStat(r)
    \/ \E r \in Slots : EndGetSession(r)
    \/ \E r \in Slots : EndGetStation(r)
    \/ \E r \in Slots : EndSelectSession(r)
    \/ \E r \in Slots : EndUpdateSession(r)
    \/ \E r \in Slots : EndUpdateStation(r)
    \/ \E r \in Slots : EndSelectStat(r)
    \/ \E r \in Slots : EndUpdateStat(r)
    \/ \E r \in Slots : EndCreatePayment(r)

\* a payment request arrives at a free slot
PayArrival ==
    \/ \E r \in Slots, id \in 0..MaxSessions, a \in CashAmounts,
          u \in CustomerIds \cup {NULL} :
            CashRequest(r, id, a, u) /\ UNCHANGED uiVars
    \/ \E r \in Slots, id \in 0..MaxSessions, a \in CashAmounts,
          u \in CustomerIds \cup {NULL} :
            PayCashRequest(r, id, a, u) /\ UNCHANGED uiVars

\* a payment handler in flight executes its next database statement
PayStep ==
    \/ \E r \in Slots : CashGetSession(r)
    \/ \E r \in Slots : CashCreatePayment(r)
    \/ \E r \in Slots : PayCashGetTransaction(r)
    \/ \E r \in Slots : PayCashCreatePayment(r)
    \/ \E r \in Slots : PayCashGetUpdated(r)

\* requests are served concurrently: handlers interleave at their awaits
Next == Tick \/ Arrival \/ Step
Spec == Init /\ [][Next]_vars

\* requests are served one at a time
NextSeq ==
    \/ Tick
    \/ Quiescent /\ Arrival
    \/ Step
SpecSeq == Init /\ [][NextSeq]_vars

\* sessions and cash payments, served one at a time
SessionArrival ==
    \/ \E r \in Slots, st \in StationStatus, hr \in HourRates, gr \in GameRates :
          CreateStation(r, st, hr, gr)
    \/ \E r \in Slots, id \in 1..MaxStations, c \in CustomerIds,
          ty \in SessionType, ok \in BOOLEAN : StartRequest(r, id, c, ty, ok)
    \/ \E r \in Slots, id \in 1..MaxSessions : EndRequest(r, id)

NextPay ==
    \/ Quiescent /\ SessionArrival
    \/ Quiescent /\ PayArrival
    \/ Step
    \/ PayStep
SpecPay == Init /\ [][NextPay]_vars

\* concurrent session starts
NextStart ==
    \/ Tick
    \/ \E r \in Slots, st \in StationStatus, hr \in HourRates, gr \in GameRates :
          CreateStation(r, st, hr, gr)
    \/ \E r \in Slots, id \in 1..MaxStations, c \in CustomerIds,
          ty \in SessionType, ok \in BOOLEAN : StartRequest(r, id, c, ty, ok)
    \/ \E r \in Slots : StartGetStation(r)
    \/ \E r \in Slots : StartInsertSession(r)
    \/ \E r \in Slots : StartUpdateStation(r)
    \/ \E r \in Slots : StartSelectStat(r)
    \/ \E r \in Slots : StartWriteStat(r)
SpecStart == Init /\ [][NextStart]_vars

\* ------------------------------------------ payment dialog of a station
\* station.baseRate || 40 and station.hourlyRate || 200
DefaultGameRate == 40
DefaultHourRate == 200

\* v || d on a number: d when v is missing or 0
OrDefault(v, d) == IF v = NULL \/ v = 0 THEN d ELSE v

\* duration of the dialog: Math.ceil((Date.now() - sessionStartTime) / 60000)
\* minutes, 0 without a sessionStartTime
PaymentModalDuration(sessionStartTime, t) ==
    IF sessionStartTime = NULL THEN 0
    ELSE CeilDiv(t - sessionStartTime, SecondsPerMinute)

\* amount of the dialog, from the station prop's sessionType ("per_game" or
\* anything else), baseRate and hourlyRate
PaymentModalAmount(sessionType, duration, baseRate, hourlyRate) ==
    IF sessionType = "per_game"
    THEN OrDefault(baseRate, DefaultGameRate)
    ELSE CeilDiv(duration, 60) * OrDefault(hourlyRate, DefaultHourRate)

\* amount the dialog computes for the station's session
ModalAmounts == {KSh(200)}

\* handlePayment with cash selected: createTransaction posts the amount
\* (as a string, with no sessionId)
ModalPay(r, amount) ==
    /\ ~modal.isProcessing
    /\ Len(stations) > 0
    /\ PayCreateRequest(r, NULL, NULL, amount)
    /\ modal' = [modal EXCEPT !.isProcessing = TRUE,
                              !.awaiting = "createTransaction",
                              !.amount = amount,
                              !.before = Len(payments)]
    /\ UNCHANGED <<split, mpesa>>

\* createTransaction answered with the id of the new payment row (the
\* insert of a row with no session and a non-empty amount does not fail):
\* processCashPayment posts that id as transactionId
ModalProcessCash(r) ==
    /\ modal.awaiting = "createTransaction"
    /\ Quiescent
    /\ res.status = 201
    /\ PayCashRequest(r, Len(payments), modal.amount, NULL)
    /\ modal' = [modal EXCEPT !.awaiting = "cash"]
    /\ UNCHANGED <<split, mpesa>>

\* processCashPayment answers: on 200 onPaymentComplete and onClose,
\* otherwise the Payment Failed toast
ModalCashDone ==
    /\ modal.awaiting = "cash"
    /\ Quiescent
    /\ modal' = IF res.status = 200
                THEN [modal EXCEPT !.awaiting = "none", !.completed = @ + 1]
                ELSE [modal EXCEPT !.awaiting = "none", !.errors = @ + 1]
    /\ UNCHANGED <<dbVars, now, ticks, pc, loc, res, split, mpesa>>

\* the payment dialog over stations and their sessions
NextModal ==
    \/ /\ Quiescent
       /\ modal.awaiting = "none"
       /\ SessionArrival
    \/ Step
    \/ Quiescent /\ \E r \in Slots, a \in ModalAmounts : ModalPay(r, a)
    \/ \E r \in Slots : ModalProcessCash(r)
    \/ ModalCashDone
    \/ \E r \in Slots : PayCreateInsert(r)
    \/ \E r \in Slots : PayCashGetTransaction(r)
    \/ \E r \in Slots : PayCashCreatePayment(r)
    \/ \E r \in Slots : PayCashGetUpdated(r)
SpecModal == Init /\ [][NextModal]_vars

\* ------------------------------------------------- M-Pesa payment page
\* const maxStatusChecks = 5
maxStatusChecks == 5

\* amount prop of the payment page
PageAmounts == {KSh(100)}
\* what a status request brings back: the body of
\* GET /api/payments/mpesa/status/:id, or no answer (the request failed)
StatusAnswers == {"completed", "error"}

\* checkMpesaPaymentStatus: data.status || 'completed' of an answer, and
\* 'failed' for a request that failed
checkMpesaPaymentStatus(answer) ==
    IF answer = "error" THEN "failed"
    ELSE IF answer = Absent THEN "completed"
    ELSE answer

\* handleMpesaPayment: with a phone number typed and nothing in progress,
\* initiateMpesaPayment posts the page's transaction id and amount
MpesaPay(r, transactionId, amount) ==
    /\ ~mpesa.isProcessing
    /\ mpesa.awaiting = "none"
    /\ ~mpesa.polling /\ mpesa.inFlight = 0
    /\ PayMpesaRequest(r, transactionId, TRUE, amount, NULL)
    /\ mpesa' = [mpesa EXCEPT !.isProcessing = TRUE,
                              !.mpesaStatus = "processing",
                              !.awaiting = "initiate"]
    /\ UNCHANGED <<split, modal>>

\* initiateMpesaPayment answers: on 200 the status interval is set with
\* statusChecks = 0, otherwise the page shows failed
MpesaInitiated ==
    /\ mpesa.awaiting = "initiate"
    /\ Quiescent
    /\ mpesa' = IF res.status = 200
                THEN [mpesa EXCEPT !.awaiting = "none", !.polling = TRUE,
                                   !.statusChecks = 0]
                ELSE [mpesa EXCEPT !.awaiting = "none",
                                   !.mpesaStatus = "failed",
                                   !.isProcessing = FALSE]
    /\ UNCHANGED <<dbVars, now, ticks, pc, loc, res, split, modal>>

\* the interval fires counting one check too many: it is cleared at once
MpesaPollTick_NoLimit ==
    /\ mpesa.polling
    /\ mpesa' = IF mpesa.statusChecks + 1 > maxStatusChecks + 1
                THEN [mpesa EXCEPT !.statusChecks = @ + 1,
                                   !.polling = FALSE,
                                   !.mpesaStatus = "idle",
                                   !.isProcessing = FALSE]
                ELSE [mpesa EXCEPT !.statusChecks = @ + 1,
                                   !.inFlight = @ + 1]
    /\ UNCHANGED <<dbVars, now, ticks, pc, loc, res, split, modal>>

\* the interval fires (every 5 seconds, whether or not the last check was
\* answered): statusChecks++; past maxStatusChecks the interval is cleared
\* and the page goes back to idle, otherwise a status request is sent
MpesaPollTick ==
    /\ mpesa.polling
    /\ mpesa' = IF mpesa.statusChecks + 1 > maxStatusChecks
                THEN [mpesa EXCEPT !.statusChecks = @ + 1,
                                   !.polling = FALSE,
                                   !.mpesaStatus = "idle",
                                   !.isProcessing = FALSE]
                ELSE [mpesa EXCEPT !.statusChecks = @ + 1,
                                   !.inFlight = @ + 1]
    /\ UNCHANGED <<dbVars, now, ticks, pc, loc, res, split, modal>>

\* a status request is answered: 'completed' clears the interval and calls
\* onSuccess, 'failed' clears it and shows failed, anything else waits for
\* the next check
MpesaStatusAnswer(answer) ==
    /\ mpesa.inFlight > 0
    /\ LET status == checkMpesaPaymentStatus(answer)
           m == [mpesa EXCEPT !.inFlight = @ - 1]
       IN  mpesa' =
             IF status = "completed"
             THEN [m EXCEPT !.polling = FALSE, !.mpesaStatus = "completed",
                            !.succeeded = @ + 1, !.isProcessing = FALSE,
                            !.confirmed = @ \/ answer = "completed"]
             ELSE IF status = "failed"
             THEN [m EXCEPT !.polling = FALSE, !.mpesaStatus = "failed",
                            !.isProcessing = FALSE]
             ELSE m
    /\ UNCHANGED <<dbVars, now, ticks, pc, loc, res, split, modal>>

\* the payment page over sessions in progress
NextMpesa ==
    \/ /\ Quiescent
       /\ mpesa.awaiting = "none"
       /\ \/ \E r \in Slots, hr \in HourRates, gr \in GameRates :
                CreateStation(r, "AVAILABLE", hr, gr)
          \/ \E r \in Slots, id \in 1..MaxStations, c \in CustomerIds,
                ty \in SessionType : StartRequest(r, id, c, ty, TRUE)
    \/ \E r \in Slots : StartGetStation(r)
    \/ \E r \in Slots : StartInsertSession(r)
    \/ \E r \in Slots : StartUpdateStation(r)
    \/ \E r \in Slots : StartSelectStat(r)
    \/ \E r \in Slots : StartWriteStat(r)
    \/ Quiescent /\ \E r \in Slots, id \in 1..MaxSessions, a \in PageAmounts :
                        MpesaPay(r, id, a)
    \/ \E r \in Slots : PayMpesaGetTransaction(r)
    \/ \E r \in Slots : PayMpesaCreatePayment(r)
    \/ \E r \in Slots : PayMpesaGetUpdated(r)
    \/ MpesaInitiated
    \/ MpesaPollTick
    \/ \E a \in StatusAnswers : MpesaStatusAnswer(a)
SpecMpesa == Init /\ [][NextMpesa]_vars

\* the interval timer fires while it is set
SpecMpesaFair == SpecMpesa /\ WF_vars(MpesaPollTick)

\* the split-payment dialog over sessions in progress; the client and the
\* server make one exchange at a time
SplitUser ==
    \/ \E t \in SplitTotals, id \in (1..Len(sessions)) \cup {NULL},
          c \in CustomerIds \cup {NULL} : SplitOpen(t, id, c)
    \/ SplitCancel
    \/ SplitAdd
    \/ \E i \in 1..MaxParts : SplitRemove(i)
    \/ \E i \in 1..MaxParts, a \in SplitInputs : SplitUpdateAmount(i, a)
    \/ \E i \in 1..MaxParts : SplitMarkPaid(i)
    \/ SplitMpesaCheckStatus
    \/ SplitGenerateQR
    \/ SplitQrCheckStatus

SplitRequest ==
    \/ \E r \in Slots, i \in 1..MaxParts : SplitPay(r, i)
    \/ \E r \in Slots : SplitProcessCash(r)
    \/ \E r \in Slots : SplitMpesaInitiate(r)

SplitAnswer ==
    \/ SplitPayDone
    \/ SplitCashDone
    \/ SplitMpesaDone

SplitStep ==
    \/ \E r \in Slots : PayCreateInsert(r)
    \/ \E r \in Slots : PayCashGetTransaction(r)
    \/ \E r \in Slots : PayCashCreatePayment(r)
    \/ \E r \in Slots : PayCashGetUpdated(r)
    \/ \E r \in Slots : PayMpesaGetTransaction(r)
    \/ \E r \in Slots : PayMpesaCreatePayment(r)
    \/ \E r \in Slots : PayMpesaGetUpdated(r)

NextSplit ==
    \/ /\ Quiescent
       /\ ~split.mounted
       /\ \/ \E r \in Slots, hr \in HourRates :
                CreateStation(r, "AVAILABLE", hr, NULL)
          \/ \E r \in Slots, id \in 1..MaxStations, c \in CustomerIds :
                StartRequest(r, id, c, "HOURLY", TRUE)
    \/ \E r \in Slots : StartGetStation(r)
    \/ \E r \in Slots : StartInsertSession(r)
    \/ \E r \in Slots : StartUpdateStation(r)
    \/ \E r \in Slots : StartSelectStat(r)
    \/ \E r \in Slots : StartWriteStat(r)
    \/ SplitUser
    \/ Quiescent /\ SplitRequest
    \/ SplitAnswer
    \/ SplitStep
SpecSplit == Init /\ [][NextSplit]_vars

\* ================================================================ claims
\* sessions with status ACTIVE that reference station s
ActiveSessionsOf(s) ==
    {i \in 1..Len(sessions) :
        sessions[i].stationId = s /\ sessions[i].status = "ACTIVE"}

\* C1: between requests, a station has status ACTIVE if and only if
\* exactly one session with status ACTIVE references it.
C1_ActiveIffOneActiveSession ==
    Quiescent =>
        \A s \in 1..Len(stations) :
            stations[s].status = "ACTIVE" <=> Cardinality(ActiveSessionsOf(s)) = 1

\* C2: once concurrent start() requests have all finished, at most one
\* session with status ACTIVE references any station.
C2_AtMostOneActiveSession ==
    Quiescent =>
        \A s \in 1..Len(stations) : Cardinality(ActiveSessionsOf(s)) <= 1

\* C3: when start() finds its station ACTIVE or in MAINTENANCE, the request
\* ends there with status 400 and no table row is changed.
C3_StartOnUnavailableFails ==
    [][\A r \in Slots :
          ( /\ pc[r] = "start_getStation"
            /\ pc'[r] # pc[r]
            /\ loc[r].stationId \in 1..Len(stations)
            /\ stations[loc[r].stationId].status \in {"ACTIVE", "MAINTENANCE"} )
          => ( /\ pc'[r] = "idle"
               /\ res' = [op |-> "start", status |-> 400]
               /\ dbVars' = dbVars )]_vars

\* a start() was just refused on a station in MAINTENANCE and on an ACTIVE one
C3_Witness_Maintenance ==
    /\ Quiescent
    /\ res = [op |-> "start", status |-> 400]
    /\ \E s \in 1..Len(stations) : stations[s].status = "MAINTENANCE"
    /\ \A s \in 1..Len(stations) : stations[s].status # "AVAILABLE"
\* the handler in slot r computes the charge of the session it is ending
ChargeStep(r) ==
    pc[r] = "end_getStation" /\ pc'[r] = "end_selectSession"

\* the handler in slot r writes the closed session
CloseStep(r) ==
    pc[r] = "end_updateSession" /\ pc'[r] = "end_updateStation"

\* C4: for an HOURLY session the charge end() computes is the elapsed time
\* rounded up to whole hours, times the station's ratePerHour, and that
\* charge is what end() stores as totalAmount.
C4_HourlyBillsWholeHours ==
    [][\A r \in Slots :
          /\ (ChargeStep(r) /\ loc[r].sessionType = "HOURLY")
                => loc'[r].totalAmount =
                      CeilDiv(now - loc[r].startTime, SecondsPerHour)
                        * stations[loc[r].stationId].ratePerHour
          /\ CloseStep(r)
                => sessions'[loc[r].id].totalAmount = loc[r].totalAmount]_vars

C7_EndOfClosedSessionFails ==
    [][\A r \in Slots :
          ( /\ pc[r] = "end_getSession"
            /\ pc'[r] # pc[r]
            /\ \/ loc[r].id \notin 1..Len(sessions)
               \/ sessions[loc[r].id].status # "ACTIVE" )
          => ( /\ pc'[r] = "idle"
               /\ res'.op = "end"
               /\ res'.status \in {400, 404}
               /\ dbVars' = dbVars )]_vars

\* an end() was just refused for a session that is already COMPLETED
C7_Witness_RepeatedEnd ==
    /\ Quiescent
    /\ res = [op |-> "end", status |-> 400]
    /\ \E i \in 1..Len(sessions) : sessions[i].status = "COMPLETED"

\* C8: once a session is closed, its status, endTime and totalAmount keep
\* their values in every later step.
C8_ClosedSessionImmutable ==
    [][\A i \in 1..Len(sessions) :
          sessions[i].status # "ACTIVE"
             => /\ sessions'[i].status      = sessions[i].status
                /\ sessions'[i].endTime     = sessions[i].endTime
                /\ sessions'[i].totalAmount = sessions[i].totalAmount]_vars

\* C9: the stats write of start() leaves today's row with activeStations
\* and activeUsers one above their value before (a new row has them at 1 and
\* revenue and hours at 0); the stats write of end() lowers each by one, not
\* below 0, and raises totalRevenue by the session's totalAmount.  No other
\* row changes.
C9_CountersFollowStartAndEnd ==
    [][\A r \in Slots :
          /\ (pc[r] = "start_writeStat" /\ pc'[r] = "idle")
                => LET i == SelectStat(loc[r].today)
                       j == IF i = 0 THEN Len(stats) + 1 ELSE i
                   IN  /\ res' = [op |-> "start", status |-> 201]
                       /\ Len(stats') = IF i = 0 THEN Len(stats) + 1 ELSE Len(stats)
                       /\ stats'[j].date = loc[r].today
                       /\ stats'[j].activeStations =
                             (IF i = 0 THEN 0 ELSE stats[i].activeStations) + 1
                       /\ stats'[j].activeUsers =
                             (IF i = 0 THEN 0 ELSE stats[i].activeUsers) + 1
                       /\ i = 0 => stats'[j].totalRevenue = 0 /\ stats'[j].totalHours = 0
                       /\ i # 0 => stats'[j].totalRevenue = stats[i].totalRevenue
                       /\ \A k \in 1..Len(stats) : k # j => stats'[k] = stats[k]
          /\ (pc[r] = "end_updateStat" /\ pc'[r] # pc[r])
                => LET i == SelectStat(loc[r].today) IN
                       /\ i # 0
                       /\ Len(stats') = Len(stats)
                       /\ stats'[i].activeStations =
                             (IF stats[i].activeStations = 0 THEN 0
                              ELSE stats[i].activeStations - 1)
                       /\ stats'[i].activeUsers =
                             (IF stats[i].activeUsers = 0 THEN 0
                              ELSE stats[i].activeUsers - 1)
                       /\ stats'[i].totalRevenue =
                             stats[i].totalRevenue + sessions[loc[r].id].totalAmount
                       /\ \A k \in 1..Len(stats) : k # i => stats'[k] = stats[k]]_vars

\* a session was started and ended on the same day: the day's counters are
\* back at 0 and its revenue is the session's totalAmount
C9_Witness_StartedAndEndedToday ==
    /\ Quiescent
    /\ res = [op |-> "end", status |-> 200]
    /\ Len(sessions) = 1 /\ Len(stats) = 1
    /\ sessions[1].status = "COMPLETED"
    /\ sessions[1].totalAmount > 0
    /\ Today(sessions[1].startTime) = Today(sessions[1].endTime)
    /\ stats[1].activeStations = 0 /\ stats[1].activeUsers = 0
    /\ stats[1].totalRevenue = sessions[1].totalAmount

\* C10: a cash payment of amount A made with a customer id raises that
\* customer's loyaltyPoints by floor(A / 100).
C10_CashPaymentAwardsPoints ==
    [][\A r \in Slots :
          ( /\ pc[r] \in {"cash_createPayment", "payCash_createPayment"}
            /\ Len(payments') = Len(payments) + 1
            /\ loc[r].userId # NULL )
          => customers'[loc[r].userId].loyaltyPoints =
                customers[loc[r].userId].loyaltyPoints
                   + (loc[r].amount \div KSh(100))]_vars

\* a dialog action that pays a part or asks the server to
PayingStep ==
    \/ \E r \in Slots, i \in 1..MaxParts : SplitPay(r, i)
    \/ \E r \in Slots : SplitProcessCash(r)
    \/ \E r \in Slots : SplitMpesaInitiate(r)
    \/ \E i \in 1..MaxParts : SplitMarkPaid(i)
    \/ SplitMpesaCheckStatus
    \/ SplitQrCheckStatus

\* a dialog action that ends in onSuccess
SuccessStep ==
    \/ \E i \in 1..MaxParts : SplitMarkPaid(i)
    \/ SplitCashDone /\ res.status = 200
    \/ SplitMpesaCheckStatus
    \/ SplitQrCheckStatus

\* C11: in the split dialog no Pay, Mark Paid, cash, M-Pesa or QR action
\* runs while the parts' amounts differ from the total by 0.01 or more.
C11_NoPaymentWhileUnbalanced ==
    [][PayingStep => isBalanced(split)]_vars

\* C12: addSplit, removeSplit and updateSplitAmount leave the amount of
\* every paid part as it was, and after addSplit or removeSplit every unpaid
\* part has (total - paid amounts) / number of unpaid parts.
C12_PaidPartsFrozen ==
    [][/\ ( \/ SplitAdd
            \/ \E i \in 1..MaxParts, a \in SplitInputs :
                  SplitUpdateAmount(i, a) )
          => \A i \in PaidParts(split.splits) :
                split'.splits[i].amount = split.splits[i].amount
       /\ \A k \in 1..MaxParts :
            SplitRemove(k)
              => \A i \in PaidParts(split.splits) :
                    split'.splits[IF i > k THEN i - 1 ELSE i].amount
                       = split.splits[i].amount
       /\ (SplitAdd \/ \E k \in 1..MaxParts : SplitRemove(k))
          => \A i \in UnpaidParts(split'.splits) :
                split'.splits[i].amount =
                   Quot(split.totalAmount - paidAmount(split.splits),
                        Cardinality(UnpaidParts(split'.splits)))]_vars

\* C18: every Payment row made while paying the parts of a split references
\* the session the dialog was opened for.
C18_PartPaymentsReferenceSession ==
    \A p \in 1..Len(payments) :
        split.mounted => payments[p].sessionId = split.sessionId

C13_CompletedOnlyAfterConfirmation ==
    /\ (\E p \in 1..Len(payments) :
           payments[p].paymentMethod = "MPESA" /\ payments[p].status = "COMPLETED")
         => mpesa.confirmed
    /\ (mpesa.mpesaStatus = "completed" \/ mpesa.succeeded > 0) => mpesa.confirmed

\* C14: the poll loop sends at most 5 status requests; when it gives up the
\* page is idle and not processing; and a loop that is polling always stops.
C14_PollLoopTerminates ==
    /\ [][/\ mpesa'.inFlight > mpesa.inFlight => mpesa'.statusChecks <= maxStatusChecks
          /\ (MpesaPollTick /\ mpesa.statusChecks >= maxStatusChecks)
               => /\ ~mpesa'.polling /\ ~mpesa'.isProcessing
                  /\ mpesa'.mpesaStatus = "idle"
                  /\ mpesa'.inFlight = mpesa.inFlight]_vars
    /\ []<>(~mpesa.polling)

\* five checks sent and none answered: the loop has given up
C14_Witness_GaveUpUnanswered ==
    /\ ~mpesa.polling
    /\ mpesa.statusChecks = maxStatusChecks + 1
    /\ mpesa.inFlight = maxStatusChecks
    /\ mpesa.mpesaStatus = "idle" /\ ~mpesa.isProcessing

\* C15: when the payment dialog reports that the cash payment failed, the
\* payments table is as it was when the operation began.
C15_FailedPaymentLeavesNoRow ==
    (modal.awaiting = "none" /\ modal.errors > 0)
        => Len(payments) = modal.before

\* COMPLETED payment rows tied to session i
CompletedPaymentsOf(i) ==
    {p \in 1..Len(payments) :
        payments[p].sessionId = i /\ payments[p].status = "COMPLETED"}

\* C16: getTransaction reports the paymentStatus of a session whose
\* totalAmount is set as COMPLETED only when the session's COMPLETED payment
\* amounts sum to that totalAmount.
C16_PaidMeansFullyPaid ==
    \A i \in 1..Len(sessions) :
        (sessions[i].totalAmount # NULL /\ paymentStatus(i) = "COMPLETED")
          => SumOver(payments, CompletedPaymentsOf(i))
                = KSh(sessions[i].totalAmount)

\* C17: a cash payment request answered with success has recorded a Payment
\* row with status COMPLETED and paymentMethod CASH, in both handlers.
C17_CashSettlementCompleted ==
    [][\A r \in Slots :
          ( /\ pc[r] \in {"cash_createPayment", "payCash_createPayment"}
            /\ Len(payments') = Len(payments) + 1 )
          => /\ payments'[Len(payments')].status = "COMPLETED"
             /\ payments'[Len(payments')].paymentMethod = "CASH"]_vars

\* C20: no update of today's statistics row is lost: the write of a session
\* start raises activeStations and activeUsers by one, and the write of a
\* session end lowers them by one (not below 0) and adds the session's
\* totalAmount to totalRevenue, each from the row's value at the write, so
\* that after n starts and m ends the counters are n - m and totalRevenue is
\* the sum of the closed sessions' totals.
C20_NoLostStatUpdate ==
    [][\A r \in Slots :
          /\ (pc[r] = "start_writeStat" /\ pc'[r] # pc[r] /\ loc[r].statId # 0)
             => LET i == loc[r].statId IN
                  /\ stats'[i].activeStations = stats[i].activeStations + 1
                  /\ stats'[i].activeUsers = stats[i].activeUsers + 1
                  /\ stats'[i].totalRevenue = stats[i].totalRevenue
          /\ (pc[r] = "end_updateStat" /\ pc'[r] # pc[r])
             => LET i == loc[r].statId IN
                  /\ stats'[i].activeStations = Max(0, stats[i].activeStations - 1)
                  /\ stats'[i].activeUsers = Max(0, stats[i].activeUsers - 1)
                  /\ stats'[i].totalRevenue =
                        stats[i].totalRevenue + loc[r].totalAmount]_vars

\* C21: between requests there is exactly one stats row for each calendar
\* day on which a session was started, also after two concurrent first
\* starts of the day: no day has two rows, and every session's start day
\* has a row.
C21_OneStatRowPerDate ==
    Quiescent =>
        /\ \A i, j \in 1..Len(stats) : stats[i].date = stats[j].date => i = j
        /\ \A k \in 1..Len(sessions) :
              \E i \in 1..Len(stats) : stats[i].date = Today(sessions[k].startTime)

\* C21 (amended): no calendar day ever has two stats rows, and when the
\* statistics step of a start ends, also for the later of two concurrent
\* first starts of a day, exactly one row exists for the day that step read.
C21_OneStatRowPerDayRead ==
    [][/\ \A i, j \in 1..Len(stats') : stats'[i].date = stats'[j].date => i = j
       /\ \A r \in Slots :
             (pc[r] = "start_writeStat" /\ pc'[r] = "idle")
             => Cardinality({i \in 1..Len(stats') :
                               stats'[i].date = loc[r].today}) = 1]_vars

\* two first starts of a day ran concurrently: both sessions exist, the day
\* has one row and the later insert of the row was refused
C21_Witness_ConcurrentFirstStarts ==
    /\ Quiescent
    /\ Len(sessions) = 2
    /\ sessions[1].startTime = sessions[2].startTime
    /\ Len(stats) = 1
    /\ res = [op |-> "start", status |-> 500]

\* C22: the writes of a transition are atomic with its statistics update:
\* when a start() is answered with a failure after its session insert, the
\* session it inserted does not persist.
C22_FailedStartLeavesNothing ==
    [][\A r \in Slots :
          ( /\ pc[r] = "start_writeStat" /\ pc'[r] = "idle"
            /\ res'.status >= 400 )
          => loc[r].id \notin 1..Len(sessions')]_vars

\* C23: when end() finds no stats row for today, the session is closed and
\* the station is free, and from there to the answer no stats row is
\* created and no counter of an existing row changes.
C23_EndWithoutStatRowIsNoOp ==
    [][\A r \in Slots :
          /\ ( /\ pc[r] = "end_selectStat" /\ pc'[r] # pc[r]
               /\ SelectStat(loc[r].today) = 0 )
             => /\ pc'[r] = "end_createPayment"
                /\ stats' = stats
                /\ sessions'[loc[r].id].status = "COMPLETED"
                /\ stations'[sessions'[loc[r].id].stationId].status = "AVAILABLE"
          /\ (pc[r] = "end_createPayment" /\ pc'[r] # pc[r])
             => /\ stats' = stats
                /\ res' = [op |-> "end", status |-> 200]]_vars

\* a session started yesterday was ended today: it is closed with a charge,
\* and the only stats row is yesterday's, still counting it as active and
\* without its revenue
C23_Witness_EndedAfterMidnight ==
    /\ Quiescent
    /\ res = [op |-> "end", status |-> 200]
    /\ Len(sessions) = 1 /\ sessions[1].status = "COMPLETED"
    /\ sessions[1].totalAmount > 0
    /\ stations[sessions[1].stationId].status = "AVAILABLE"
    /\ Len(stats) = 1
    /\ stats[1].date # Today(sessions[1].endTime)
    /\ stats[1].activeStations = 1 /\ stats[1].totalRevenue = 0

\* C24: a FIXED session on a station whose per-game rate is unset is closed
\* with a totalAmount of 40, the default the payment dialog applies as well.
C24_UnsetGameRateCharges40 ==
    [][\A r \in Slots :
          ( /\ CloseStep(r)
            /\ sessions[loc[r].id].sessionType = "FIXED"
            /\ stations[loc[r].stationId].ratePerGame = NULL )
          => /\ sessions'[loc[r].id].totalAmount = DefaultGameRate
             /\ sessions'[loc[r].id].totalAmount =
                   PaymentModalAmount("per_game", 0, NULL, NULL)]_vars

\* a request that changed a station's status is answered: a start or an
\* end that succeeded, or a station update or setMaintenance that changed
\* the status
StatusChangeAnswered ==
    \/ \E r \in Slots : /\ pc[r] = "start_writeStat" /\ pc'[r] = "idle"
                        /\ res'.status = 201
    \/ \E r \in Slots : pc[r] = "end_createPayment" /\ pc'[r] = "idle"
    \/ /\ res'.op \in {"patchStation", "setMaintenance"}
       /\ \E k \in 1..Len(stations) : stations'[k].status # stations[k].status

\* C25: every operation that changes a station's status sends a
\* STATION_UPDATED or STATION_MAINTENANCE event when it answers.
C25_StatusChangeEmitsStationEvent ==
    [][StatusChangeAnswered
         => broadcast(res'.op, res'.status)
              \in {"STATION_UPDATED", "STATION_MAINTENANCE"}]_vars

\* payment rows recorded by end() for session i
PendingPaymentsOf(i) ==
    {p \in 1..Len(payments) :
        payments[p].sessionId = i /\ payments[p].paymentMethod = "PENDING"}

\* C26: however end() requests for one ACTIVE session interleave, one
\* PENDING payment row at most is recorded for the session.
C26_ConcurrentEndsRecordOnce ==
    \A i \in 1..Len(sessions) : Cardinality(PendingPaymentsOf(i)) <= 1

\* C27: when a payment request records a COMPLETED payment against a closed
\* session with a charge, the COMPLETED amounts tied to the session sum to
\* no more than its totalAmount (a settlement beyond it is rejected).
C27_NeverPaidBeyondTotal ==
    [][( /\ Len(payments') = Len(payments) + 1
         /\ payments'[Len(payments')].status = "COMPLETED"
         /\ payments'[Len(payments')].sessionId \in 1..Len(sessions)
         /\ sessions[payments'[Len(payments')].sessionId].status = "COMPLETED"
         /\ sessions[payments'[Len(payments')].sessionId].totalAmount > 0 )
       => LET i == payments'[Len(payments')].sessionId IN
            SumOver(payments', {p \in 1..Len(payments') :
                                  /\ payments'[p].sessionId = i
                                  /\ payments'[p].status = "COMPLETED"})
              <= KSh(sessions[i].totalAmount)]_vars

\* C28: a station in MAINTENANCE leaves that status only through a station
\* update by an operator; ending a session on it does not free it.
C28_MaintenanceUntilOperatorChange ==
    [][\A k \in 1..Len(stations) :
          ( /\ stations[k].status = "MAINTENANCE"
            /\ stations'[k].status # "MAINTENANCE" )
          => \E r \in Slots, st \in StationStatus, gr \in GameRates :
                PatchStation(r, k, st, gr)]_vars

\* C29: onSuccess is called only while the poll loop of the attempt is live:
\* not after it has called onSuccess once, given up or reported failure,
\* however many status checks are in flight.
C29_SuccessOnceWhileLive ==
    [][mpesa'.succeeded > mpesa.succeeded
         => /\ mpesa.polling
            /\ mpesa.mpesaStatus = "processing"
            /\ mpesa'.succeeded = mpesa.succeeded + 1]_vars

\* C30: the totalAmount end() computes for an HOURLY session is the amount
\* the payment dialog computes at the same moment from the same start time
\* and hourly rate.
C30_DialogAmountIsServerAmount ==
    [][\A r \in Slots :
          (ChargeStep(r) /\ loc[r].sessionType = "HOURLY")
          => loc'[r].totalAmount =
               PaymentModalAmount("hourly",
                                  PaymentModalDuration(loc[r].startTime, now),
                                  NULL,
                                  stations[loc[r].stationId].ratePerHour)]_vars

====
